---------------------------- MODULE Spec2Model ----------------------------
(***************************************************************************)
(* Model of the Teleradyx cases monitor (src/case-monitor.js): main() runs *)
(* one CaseMonitor.runCheck per configured doctor, strictly sequentially.  *)
(* Text is modelled as sequences of tokens (a token is a word, a digit, a  *)
(* blank " " or a punctuation mark), so that trim, includes, parseInt,     *)
(* join and replace are computed the way the code computes them.           *)
(* An optional value (a JS value that may be null) is <<>> for null and    *)
(* <<v>> for the value v.                                                  *)
(***************************************************************************)
EXTENDS Integers, Sequences, FiniteSets, TLC

(***************************************************************************)
(* Bounds of the model.                                                    *)
(***************************************************************************)
MaxLabels == 2      \* label elements in the worklist dropdown
MaxRows   == 2      \* .InnerRow elements in the tab panel
MaxSaves  == 3      \* calls of saveToHistory for one doctor, over the runs
MaxCount  == 3      \* largest count a worklist call returns in SpecAlert

(***************************************************************************)
(* Program constants.                                                      *)
(***************************************************************************)
NumDoctors == 2

Null == <<>>
Some(v) == <<v>>

MyList   == "A##MY LIST"
Unviewed == "UNVIEWED"

\* The worklists getCaseCount processes, in the order of its two calls.
Worklists == <<MyList, Unviewed>>

\* const doctors = [...] in main(): the display names, as token sequences.
DoctorNames == << <<"Dr.", " ", "Abdaallah">>, <<"Dr.", " ", "Amit">> >>

Doctors == 1..NumDoctors

(***************************************************************************)
(* Text helpers: what the JS string methods do on token sequences.         *)
(***************************************************************************)
IsBlank(t) == t = " "

RECURSIVE TrimStart(_)
TrimStart(s) ==
    IF s # <<>> /\ IsBlank(Head(s)) THEN TrimStart(Tail(s)) ELSE s

RECURSIVE TrimEnd(_)
TrimEnd(s) ==
    IF s # <<>> /\ IsBlank(s[Len(s)]) THEN TrimEnd(SubSeq(s, 1, Len(s) - 1)) ELSE s

\* String.prototype.trim
Trim(s) == TrimEnd(TrimStart(s))

\* String.prototype.includes
Includes(s, sub) ==
    \E i \in 1..(Len(s) - Len(sub) + 1) : SubSeq(s, i, i + Len(sub) - 1) = sub

Digits == {"0", "1", "2", "3", "4", "5", "6", "7", "8", "9"}

DigitVal(t) ==
    CASE t = "0" -> 0 [] t = "1" -> 1 [] t = "2" -> 2 [] t = "3" -> 3
      [] t = "4" -> 4 [] t = "5" -> 5 [] t = "6" -> 6 [] t = "7" -> 7
      [] t = "8" -> 8 [] t = "9" -> 9

\* The value of the longest prefix of digits of s, continuing from acc.
RECURSIVE DigitPrefix(_, _)
DigitPrefix(s, acc) ==
    IF s # <<>> /\ Head(s) \in Digits
    THEN DigitPrefix(Tail(s), 10 * acc + DigitVal(Head(s)))
    ELSE acc

\* parseInt(text): leading blanks are skipped, an optional sign is read, then
\* the longest run of digits; no digit at all gives NaN (here: Null).
ParseInt(text) ==
    LET s    == TrimStart(text)
        neg  == s # <<>> /\ Head(s) = "-"
        sgn  == s # <<>> /\ Head(s) \in {"-", "+"}
        body == IF sgn THEN Tail(s) ELSE s
    IN  IF body = <<>> \/ Head(body) \notin Digits
        THEN Null
        ELSE Some((IF neg THEN -1 ELSE 1) * DigitPrefix(body, 0))

\* `x || 0` for x the result of parseInt: NaN and 0 are falsy.
OrZero(p) == IF p = Null THEN 0 ELSE p[1]

\* Array.prototype.join(sep) on a sequence of texts.
RECURSIVE Join(_, _)
Join(texts, sep) ==
    IF texts = <<>> THEN <<>>
    ELSE IF Len(texts) = 1 THEN texts[1]
    ELSE texts[1] \o <<sep>> \o Join(Tail(texts), sep)

\* String.prototype.replace(tok, '') with a string pattern: first match only.
RECURSIVE ReplaceFirst(_, _)
ReplaceFirst(s, tok) ==
    IF s = <<>> THEN <<>>
    ELSE IF Head(s) = tok THEN Tail(s)
    ELSE <<Head(s)>> \o ReplaceFirst(Tail(s), tok)

\* String.prototype.toLowerCase on the tokens that occur in doctor names.
LowerTok(t) ==
    CASE t = "Dr." -> "dr."
      [] t = "Abdaallah" -> "abdaallah"
      [] t = "Amit" -> "amit"
      [] OTHER -> t

ToLowerCase(s) == [i \in 1..Len(s) |-> LowerTok(s[i])]

\* String.prototype.replace(/\s+/g, '-'): every maximal run of blanks becomes
\* one "-".
RECURSIVE ReplaceBlankRuns(_)
ReplaceBlankRuns(s) ==
    IF s = <<>> THEN <<>>
    ELSE IF IsBlank(Head(s)) THEN <<"-">> \o ReplaceBlankRuns(TrimStart(s))
    ELSE <<Head(s)>> \o ReplaceBlankRuns(Tail(s))

Slug(name) == ReplaceBlankRuns(ToLowerCase(name))

HistoryFileOfShared(name) == <<"case-history-", ".csv">>

\* this.historyFile and this.alertFile, set by the constructor.
HistoryFileOf(name) == <<"case-history-">> \o Slug(name) \o <<".csv">>
AlertFileOf(name)   == <<"alert-status-">> \o Slug(name) \o <<".json">>

Paths == {HistoryFileOf(DoctorNames[d]) : d \in Doctors}
            \cup {AlertFileOf(DoctorNames[d]) : d \in Doctors}


(***************************************************************************)
(* The portal's DOM, as far as the code reads it.                          *)
(***************************************************************************)
SeqsUpTo(S, n) == UNION {[1..k -> S] : k \in 0..n}

\* textContent of the .gwt-Label.epserv-ListLabel elements of the dropdown.
LabelTexts == { <<" ", MyList, " ">>, <<Unviewed>>, <<Unviewed, " ", "x">> }

LabelLists == SeqsUpTo(LabelTexts, MaxLabels)

\* An .InnerRow element: the textContent of its divs, and the textContent of
\* its .epserv-TabPanel-BarTotalNum element (Null: the row has none).
CountTexts == { <<" ", "1", "x">>, <<"-", "1">>, <<"x">> }

\* The rows the panel may show once the worklist `name` was opened: a row of
\* that worklist, with any count element or none, or a row of something else.
RowKinds(name) ==
    [divs : { << <<"x">>, <<"x", " ", name>> >> },
     count : {Null} \cup {Some(t) : t \in CountTexts}]
      \cup {[divs |-> << <<"x">> >>, count |-> Some(<<"1">>)]}

RowLists(name) == SeqsUpTo(RowKinds(name), MaxRows)

\* The label elements before the dropdown was ever opened.
NoLabels == <<>>

(***************************************************************************)
(* The files.  A file is Absent, a text file (its lines, each a token      *)
(* sequence without the final newline) or a JSON file (its object).        *)
(***************************************************************************)
Absent == [exists |-> FALSE]
TextFile(lines) == [exists |-> TRUE, lines |-> lines]
JsonFile(obj) == [exists |-> TRUE, json |-> obj]

\* A JS object with string keys, in insertion order: a sequence of
\* <<key, value>> pairs.
Keys(obj) == [i \in 1..Len(obj) |-> obj[i][1]]
Values(obj) == [i \in 1..Len(obj) |-> obj[i][2]]
Get(obj, key) == obj[CHOOSE i \in 1..Len(obj) : obj[i][1] = key][2]

\* Date.prototype.toLocaleString('en-IN', {...}) of the instant t:
\* "dd/mm/yyyy, hh:mm:ss am".
ToLocaleString(t) == <<"date", ToString(t), ",", " ", "time", ToString(t), " ", "am">>

FormatToIST(t) == ReplaceFirst(ToLocaleString(t), ",")

\* `Time,${worklistNames.join(',')}` of ensureCSVHeader.
HeaderLine(worklistCounts) ==
    LET worklistNames == Keys(worklistCounts)
    IN  <<"Time", ",">> \o Join([i \in 1..Len(worklistNames) |-> <<worklistNames[i]>>], ",")

\* `${istTime},${worklistValues.join(',')}` of saveToHistory.
CsvRow(istTime, worklistCounts) ==
    LET worklistValues == Values(worklistCounts)
    IN  istTime \o <<",">>
          \o Join([i \in 1..Len(worklistValues) |-> <<ToString(worklistValues[i])>>], ",")

FormatEmailMessage(doctorName, worklists, currentCount) ==
    << <<"Case Count Report - ">> \o doctorName, <<"Rad: ">> \o doctorName >>
      \o [i \in 1..Len(worklists) |->
            <<worklists[i][1], ": ", ToString(worklists[i][2]), " cases">>]
      \o << <<"TOTAL CASES: ", ToString(currentCount)>> >>

HasCases(currentCount) == currentCount > 1

\* alertData of createAlertFile, at the instant t.
AlertData(doctorName, worklists, currentCount, t) ==
    [hasCases |-> HasCases(currentCount),
     casesFound |-> currentCount,
     timestamp |-> t,
     doctorName |-> doctorName,
     worklists |-> worklists,
     formattedMessage |-> FormatEmailMessage(doctorName, worklists, currentCount)]

(***************************************************************************)
(* The pure parts of the worklist extraction.                              *)
(***************************************************************************)
FindLabelIndexIncludes(labels, name) ==
    IF \E i \in 1..Len(labels) : Includes(labels[i], <<name>>)
    THEN CHOOSE i \in 1..Len(labels) :
            /\ Includes(labels[i], <<name>>)
            /\ \A j \in 1..(i - 1) : ~Includes(labels[j], <<name>>)
    ELSE 0

\* labels.find(label => label.textContent.trim() === name): the index of the
\* first such label, 0 when there is none.
FindLabelIndex(labels, name) ==
    IF \E i \in 1..Len(labels) : Trim(labels[i]) = <<name>>
    THEN CHOOSE i \in 1..Len(labels) :
            /\ Trim(labels[i]) = <<name>>
            /\ \A j \in 1..(i - 1) : Trim(labels[j]) # <<name>>
    ELSE 0

\* divs.some(div => div.textContent.includes(name))
HasTargetText(row, name) ==
    \E k \in 1..Len(row.divs) : Includes(row.divs[k], <<name>>)

ScanRowsForFirstMatch(innerRows, name) ==
    LET matching == {i \in 1..Len(innerRows) : HasTargetText(innerRows[i], name)}
        first == CHOOSE i \in matching : \A j \in matching : i <= j
    IN  IF matching = {} \/ innerRows[first].count = Null
        THEN Null
        ELSE Some(OrZero(ParseInt(Trim(innerRows[first].count[1]))))

\* The for loop over innerRows: the first row that has the target text and
\* a count element returns; a matching row without a count element is
\* passed over.
RECURSIVE ScanRowsFor(_, _)
ScanRowsFor(innerRows, name) ==
    IF innerRows = <<>> THEN Null
    ELSE LET row == Head(innerRows)
         IN  IF HasTargetText(row, name) /\ row.count # Null
             THEN Some(OrZero(ParseInt(Trim(row.count[1]))))
             ELSE ScanRowsFor(Tail(innerRows), name)

\* count !== null ? count : 0
OrZeroCount(count) == IF count # Null THEN count[1] ELSE 0

\* const worklistCounts = {'A##MY LIST': ..., 'UNVIEWED': ...}
WorklistCountsOf(count1, count2) ==
    << <<MyList, OrZeroCount(count1)>>, <<Unviewed, OrZeroCount(count2)>> >>

TotalCountOfAll(count1, count2) == OrZeroCount(count1) + OrZeroCount(count2)

\* let totalCount = count1 !== null ? count1 : 0
TotalCountOf(count1, count2) == OrZeroCount(count1)

AllFailedFalsy(count1, count2) == OrZeroCount(count1) = 0 /\ OrZeroCount(count2) = 0

\* count1 === null && count2 === null
AllFailedTest(count1, count2) == count1 = Null /\ count2 = Null

\* The tail of getCaseCount: Null ("all failed") or the aggregated result.
CaseCountResult(count1, count2) ==
    IF AllFailedTest(count1, count2)
    THEN Null
    ELSE Some([worklists |-> WorklistCountsOf(count1, count2),
               total |-> TotalCountOf(count1, count2)])

ShouldSendEmailExactlyOne(worklists) == Get(worklists, MyList) = 1

ShouldSendEmailAny(worklists) == \E i \in 1..Len(worklists) : worklists[i][2] > 0

\* const shouldSendEmail = worklists['A##MY LIST'] > 0
ShouldSendEmail(worklists) == Get(worklists, MyList) > 0

(***************************************************************************)
(* Error messages.                                                         *)
(***************************************************************************)
ErrCredentials(doctorName) ==
    <<"Username and password must be provided for ">> \o doctorName
ErrLaunch    == <<"Failed to launch the browser process">>
ErrNewPage   == <<"browser.newPage failed">>
ErrUserAgent == <<"page.setUserAgent failed">>
ErrLogin     == <<"Failed to login to portal">>
ErrCaseCount == <<"Failed to get case count from portal">>
ErrClose     == <<"browser.close failed">>

\* The steps of loginToPortal, in program order.
LoginSteps ==
    <<"goto", "waitStabilize", "waitLoginMarker", "waitUserField", "typeUser",
      "waitPassField", "typePass", "clickLoginButton", "waitSettle",
      "waitConfirmMarker">>

(***************************************************************************)
(* State.                                                                  *)
(***************************************************************************)
VARIABLES
    env,          \* process.env: per doctor, is DOCTORn_USERNAME / _PASSWORD set
    fs,           \* the files, by path
    clock,        \* the instant the next `new Date()` returns
    pc,           \* position of the single thread of control
    idx,          \* main: index of the doctor of the current loop iteration
    hasFailures,  \* main: let hasFailures
    results,      \* main: const results
    exitCode,     \* process exit status, -1 while the process runs
    browsers,     \* per doctor: the browser instance launched by that check
    closeCalls,   \* per doctor: calls of browser.close() on that instance
    monitor,      \* the CaseMonitor of the current iteration (Null: none)
    browser,      \* runCheck: let browser (Null, or Some(d): doctor d's instance)
    thrown,       \* the exception in flight (Null: none), by its message
    loginPos,     \* loginToPortal: index of the next step
    loginTrace,   \* loginToPortal: the steps completed so far
    buttonFound,  \* loginToPortal: did the evaluate step find the "Log In" button
    loginSuccess, \* runCheck: const loginSuccess (Null: not yet assigned)
    wl,           \* getCaseCount: index of the worklist of the current call
    calls,        \* the worklist names openWorklistAndCount was invoked with
    labels,       \* the page's label elements, as the dropdown last showed them
    clickedLabel, \* openWorklistAndCount: index of the label clicked (0: none)
    scanned,      \* openWorklistAndCount: did the row scan run
    panel,        \* the .InnerRow elements of the tab panel, where a state holds
                  \* them (Null: they are drawn by the scan itself)
    callResult,   \* openWorklistAndCount: the value it returns
    counts,       \* getCaseCount: count1, count2 as far as assigned
    currentData,  \* runCheck: const currentData (Null: null)
    stages,       \* the pipeline stages started in the current check
    appended,     \* per doctor: the rows fs.appendFile added to the history file
    log           \* what console.error / console.warn printed in the current check

mainVars == <<idx, hasFailures, results, exitCode>>
browserVars == <<browsers, closeCalls, browser>>
loginVars == <<loginPos, loginTrace, buttonFound, loginSuccess>>
extractVars == <<wl, calls, labels, clickedLabel, scanned, panel, callResult, counts,
                 currentData>>
vars == <<env, fs, clock, pc, mainVars, browserVars, monitor, thrown,
          loginVars, extractVars, stages, appended, log>>

(***************************************************************************)
(* Initial states: the environment the process starts in.                  *)
(***************************************************************************)
\* Counts an earlier run may have left in the files.
PriorWorklists == << <<MyList, 2>>, <<Unviewed, 0>> >>

PriorFiles(d) ==
    [p \in {HistoryFileOf(DoctorNames[d]), AlertFileOf(DoctorNames[d])} |->
        IF p = HistoryFileOf(DoctorNames[d])
        THEN TextFile(<<HeaderLine(PriorWorklists), CsvRow(FormatToIST(0), PriorWorklists)>>)
        ELSE JsonFile(AlertData(DoctorNames[d], PriorWorklists, 2, 0))]

\* The file systems a run may start from: no file yet, or for every doctor
\* the files an earlier successful run wrote.
InitialFileSystems ==
    { [p \in Paths |->
          LET d == CHOOSE e \in Doctors :
                      p \in {HistoryFileOf(DoctorNames[e]), AlertFileOf(DoctorNames[e])}
          IN  IF had THEN PriorFiles(d)[p] ELSE Absent]
      : had \in BOOLEAN }

Init ==
    /\ env \in [Doctors -> [username : BOOLEAN, password : BOOLEAN]]
    /\ fs \in InitialFileSystems
    /\ clock = 1
    /\ pc = "loop"
    /\ idx = 1
    /\ hasFailures = FALSE
    /\ results = <<>>
    /\ exitCode = -1
    /\ browsers = [d \in Doctors |-> "none"]
    /\ closeCalls = [d \in Doctors |-> 0]
    /\ monitor = Null
    /\ browser = Null
    /\ thrown = Null
    /\ loginPos = 1
    /\ loginTrace = <<>>
    /\ buttonFound = FALSE
    /\ loginSuccess = Null
    /\ wl = 1
    /\ calls = <<>>
    /\ labels = NoLabels
    /\ clickedLabel = 0
    /\ scanned = FALSE
    /\ panel = Null
    /\ callResult = Null
    /\ counts = <<>>
    /\ currentData = Null
    /\ stages = <<>>
    /\ appended = [d \in Doctors |-> <<>>]
    /\ log = {}

(***************************************************************************)
(* main: the loop over the doctors.                                        *)
(***************************************************************************)
\* new CaseMonitor(doctor.name, doctor.username, doctor.password)
NewCaseMonitor(d) ==
    [doctorName |-> DoctorNames[d],
     historyFile |-> HistoryFileOf(DoctorNames[d]),
     alertFile |-> AlertFileOf(DoctorNames[d])]

ConstructorRejectsNoUsername(d) == DoctorNames[d] = <<>> \/ ~env[d].username

\* The constructor's test: !this.doctorName || !this.username || !this.password
ConstructorRejects(d) ==
    DoctorNames[d] = <<>> \/ ~env[d].username \/ ~env[d].password

\* for (const doctor of doctors) { try { const monitor = new CaseMonitor(...);
\* await monitor.runCheck() ... : the start of one iteration.
Construct ==
    /\ pc = "loop"
    /\ idx <= NumDoctors
    /\ IF ConstructorRejects(idx)
       THEN /\ thrown' = Some(ErrCredentials(DoctorNames[idx]))
            /\ monitor' = Null
            /\ pc' = "checked"
       ELSE /\ thrown' = Null
            /\ monitor' = Some(NewCaseMonitor(idx))
            /\ pc' = "setup"
    /\ UNCHANGED <<env, appended, fs, clock, mainVars, browserVars, loginVars, extractVars,
                   stages, log>>

(***************************************************************************)
(* runCheck and the methods it calls.                                      *)
(***************************************************************************)
\* setupBrowser, called at the top of runCheck's try block.  launch, newPage
\* and setUserAgent may each throw; the error is logged and rethrown, and
\* runCheck's `browser` is assigned only when setupBrowser returns.
SetupBrowser ==
    /\ pc = "setup"
    /\ stages' = Append(stages, "setup")
    /\ \E outcome \in {"launchFails", "newPageFails", "setUserAgentFails", "ok"} :
         /\ browsers' = IF outcome = "launchFails" THEN browsers
                        ELSE [browsers EXCEPT ![idx] = "open"]
         /\ IF outcome = "ok"
            THEN /\ browser' = Some(idx)
                 /\ pc' = "login"
                 /\ UNCHANGED <<thrown, log>>
            ELSE /\ browser' = browser
                 /\ thrown' = Some(CASE outcome = "launchFails" -> ErrLaunch
                                     [] outcome = "newPageFails" -> ErrNewPage
                                     [] outcome = "setUserAgentFails" -> ErrUserAgent)
                 /\ log' = log \cup {<<"Failed to setup browser">>}
                 /\ pc' = "catch"
    /\ UNCHANGED <<env, appended, fs, clock, mainVars, closeCalls, monitor, loginVars,
                   extractVars>>

\* One step of loginToPortal.  Every step is an awaited call on the page that
\* returns or throws (a timeout throws); a throw is caught by the method's
\* catch, which logs and returns false.  The evaluate step clicks the
\* "Log In" button when it finds one and does nothing otherwise.
LoginStep ==
    /\ pc = "login"
    /\ stages' = IF loginPos = 1 THEN Append(stages, "login") ELSE stages
    /\ \E ok \in BOOLEAN :
         IF ok
         THEN /\ loginTrace' = Append(loginTrace, LoginSteps[loginPos])
              /\ IF LoginSteps[loginPos] = "clickLoginButton"
                 THEN buttonFound' \in BOOLEAN
                 ELSE buttonFound' = buttonFound
              /\ IF loginPos = Len(LoginSteps)
                 THEN /\ loginSuccess' = Some(TRUE)
                      /\ pc' = "loginReturned"
                      /\ loginPos' = loginPos
                 ELSE /\ loginSuccess' = loginSuccess
                      /\ pc' = pc
                      /\ loginPos' = loginPos + 1
              /\ log' = log
         ELSE /\ loginSuccess' = Some(FALSE)
              /\ log' = log \cup {<<"Login failed">>}
              /\ pc' = "loginReturned"
              /\ UNCHANGED <<loginPos, loginTrace, buttonFound>>
    /\ UNCHANGED <<env, appended, fs, clock, mainVars, browserVars, monitor, thrown,
                   extractVars>>

NotLoggedInNever(success) == FALSE

\* runCheck: !loginSuccess
NotLoggedIn(success) == success # Some(TRUE)

\* runCheck: if (!loginSuccess) throw new Error('Failed to login to portal').
\* loginToPortal's own locals are gone once it has returned.
AfterLogin ==
    /\ pc = "loginReturned"
    /\ IF ~NotLoggedIn(loginSuccess)
       THEN /\ pc' = "extractWait"
            /\ thrown' = thrown
       ELSE /\ pc' = "catch"
            /\ thrown' = Some(ErrLogin)
    /\ loginPos' = 1
    /\ loginTrace' = <<>>
    /\ buttonFound' = FALSE
    /\ UNCHANGED <<env, appended, fs, clock, mainVars, browserVars, monitor, loginSuccess,
                   extractVars, stages, log>>

\* getCaseCount up to its first call: waitForSelector('.FILTER_DOWN') throws
\* on timeout, and the method's catch logs and returns null.
GetCaseCountWait ==
    /\ pc = "extractWait"
    /\ stages' = Append(stages, "extract")
    /\ \E ok \in BOOLEAN :
         IF ok
         THEN /\ pc' = "wlOpen"
              /\ log' = log
         ELSE /\ pc' = "countReturned"
              /\ log' = log \cup {<<"Failed to get case count">>}
    /\ wl' = 1
    /\ currentData' = Null
    /\ UNCHANGED <<env, appended, fs, clock, mainVars, browserVars, monitor, thrown,
                   loginVars,
                   calls, labels, clickedLabel, scanned, panel, callResult, counts>>

\* openWorklistAndCount(page, Worklists[wl]), first part: click the dropdown
\* and wait 2 s.  The dropdown then shows whatever labels the portal has.
OpenSelector ==
    /\ pc = "wlOpen"
    /\ calls' = Append(calls, Worklists[wl])
    /\ \E failure \in {"click", "settle", "none"}, shown \in LabelLists :
         /\ labels' = IF failure = "click" THEN labels ELSE shown
         /\ IF failure = "none"
            THEN /\ pc' = "wlFind"
                 /\ UNCHANGED <<callResult, log>>
            ELSE /\ pc' = "wlReturn"
                 /\ callResult' = Null
                 /\ log' = log \cup {<<"Failed to process", Worklists[wl]>>}
    /\ UNCHANGED <<env, appended, fs, clock, mainVars, browserVars, monitor, thrown,
                   loginVars,
                   wl, clickedLabel, scanned, panel, counts, currentData, stages>>

\* Second part: the evaluate call that finds the label whose trimmed text is
\* the worklist name and clicks it; when none is found the method warns and
\* returns null; otherwise it waits 15 s.
FindLabel ==
    /\ pc = "wlFind"
    /\ \E failure \in {"evaluate", "settle", "none"} :
         LET found == FindLabelIndex(labels, Worklists[wl])
         IN  IF failure = "evaluate"
             THEN /\ pc' = "wlReturn"
                  /\ callResult' = Null
                  /\ log' = log \cup {<<"Failed to process", Worklists[wl]>>}
                  /\ clickedLabel' = clickedLabel
             ELSE IF found = 0
             THEN /\ pc' = "wlReturn"
                  /\ callResult' = Null
                  /\ log' = log \cup {<<"Could not find", Worklists[wl]>>}
                  /\ clickedLabel' = clickedLabel
             ELSE /\ clickedLabel' = found
                  /\ IF failure = "settle"
                     THEN /\ pc' = "wlReturn"
                          /\ callResult' = Null
                          /\ log' = log \cup {<<"Failed to process", Worklists[wl]>>}
                     ELSE /\ pc' = "wlScan"
                          /\ UNCHANGED <<callResult, log>>
    /\ UNCHANGED <<env, appended, fs, clock, mainVars, browserVars, monitor, thrown,
                   loginVars,
                   wl, calls, labels, scanned, panel, counts, currentData, stages>>

\* What the row scan may return for the i-th worklist: its result for any
\* rows the panel may show at that moment.
ScanOutcomes ==
    [i \in 1..Len(Worklists) |->
        {ScanRowsFor(innerRows, Worklists[i]) : innerRows \in RowLists(Worklists[i])}]

\* Third part: the evaluate call that scans the rows the panel shows at that
\* moment, and the return.
ScanRows ==
    /\ pc = "wlScan"
    /\ \/ \E count \in ScanOutcomes[wl] :
              /\ scanned' = TRUE
              /\ panel' = panel
              /\ callResult' = count
              /\ log' = log
       \/ /\ scanned' = scanned
          /\ panel' = panel
          /\ callResult' = Null
          /\ log' = log \cup {<<"Failed to process", Worklists[wl]>>}
    /\ pc' = "wlReturn"
    /\ UNCHANGED <<env, appended, fs, clock, mainVars, browserVars, monitor, thrown,
                   loginVars,
                   wl, calls, labels, clickedLabel, counts, currentData, stages>>

WorklistReturnShortCircuit ==
    /\ pc = "wlReturn"
    /\ IF callResult = Null /\ wl < Len(Worklists)
       THEN /\ counts' = counts \o <<Null, Null>>
            /\ wl' = Len(Worklists)
            /\ pc' = "aggregate"
       ELSE /\ counts' = Append(counts, callResult)
            /\ IF wl < Len(Worklists)
               THEN /\ wl' = wl + 1
                    /\ pc' = "wlOpen"
               ELSE /\ wl' = wl
                    /\ pc' = "aggregate"
    /\ labels' = NoLabels
    /\ clickedLabel' = 0
    /\ scanned' = FALSE
    /\ panel' = Null
    /\ callResult' = Null
    /\ UNCHANGED <<env, appended, fs, clock, mainVars, browserVars, monitor, thrown,
                   loginVars,
                   calls, currentData, stages, log>>

\* getCaseCount: const countN = await this.openWorklistAndCount(...), and on
\* to the next call.  The locals of the call that returned are gone.
WorklistReturn ==
    /\ pc = "wlReturn"
    /\ counts' = Append(counts, callResult)
    /\ IF wl < Len(Worklists)
       THEN /\ wl' = wl + 1
            /\ pc' = "wlOpen"
       ELSE /\ wl' = wl
            /\ pc' = "aggregate"
    /\ labels' = NoLabels
    /\ clickedLabel' = 0
    /\ scanned' = FALSE
    /\ panel' = Null
    /\ callResult' = Null
    /\ UNCHANGED <<env, appended, fs, clock, mainVars, browserVars, monitor, thrown,
                   loginVars,
                   calls, currentData, stages, log>>

\* The tail of getCaseCount: the worklist counts object, the total, and the
\* "all failed" test.
Aggregate ==
    /\ pc = "aggregate"
    /\ stages' = Append(stages, "aggregate")
    /\ currentData' = CaseCountResult(counts[1], counts[2])
    /\ log' = IF AllFailedTest(counts[1], counts[2])
              THEN log \cup {<<"Could not extract case counts from any worklist">>}
              ELSE log
    /\ pc' = "countReturned"
    /\ UNCHANGED <<env, appended, fs, clock, mainVars, browserVars, monitor, thrown,
                   loginVars,
                   wl, calls, labels, clickedLabel, scanned, panel, callResult, counts>>

AfterCountSavesOnlyCases ==
    /\ pc = "countReturned"
    /\ IF currentData = Null
       THEN /\ pc' = "catch"
            /\ thrown' = Some(ErrCaseCount)
       ELSE /\ pc' = IF currentData[1].total > 0 THEN "header" ELSE "alert"
            /\ thrown' = thrown
    /\ wl' = 1
    /\ calls' = <<>>
    /\ counts' = <<>>
    /\ UNCHANGED <<env, appended, fs, clock, mainVars, browserVars, monitor,
                   loginVars,
                   labels, clickedLabel, scanned, panel, callResult, currentData, stages, log>>

\* runCheck: if (currentData === null) throw new Error('Failed to get case
\* count from portal').  getCaseCount's own locals are gone once it has
\* returned.
AfterCount ==
    /\ pc = "countReturned"
    /\ IF currentData = Null
       THEN /\ pc' = "catch"
            /\ thrown' = Some(ErrCaseCount)
       ELSE /\ pc' = "header"
            /\ thrown' = thrown
    /\ wl' = 1
    /\ calls' = <<>>
    /\ counts' = <<>>
    /\ UNCHANGED <<env, appended, fs, clock, mainVars, browserVars, monitor,
                   loginVars,
                   labels, clickedLabel, scanned, panel, callResult, currentData, stages, log>>

\* ensureCSVHeader, called first by saveToHistory: the header is written when
\* the history file does not exist; a failed write is logged and swallowed.
EnsureCSVHeader ==
    /\ pc = "header"
    /\ stages' = Append(stages, "history")
    /\ LET file == monitor[1].historyFile
           worklistCounts == currentData[1].worklists
       IN  IF fs[file].exists
           THEN UNCHANGED <<fs, log>>
           ELSE \E ok \in BOOLEAN :
                  IF ok
                  THEN /\ fs' = [fs EXCEPT ![file] = TextFile(<<HeaderLine(worklistCounts)>>)]
                       /\ log' = log
                  ELSE /\ fs' = fs
                       /\ log' = log \cup {<<"Could not create CSV header">>}
    /\ pc' = "append"
    /\ UNCHANGED <<env, appended, clock, mainVars, browserVars, monitor, thrown, loginVars,
                   extractVars>>

\* fs.appendFile(path, text) for a text of one line: the line is added at the
\* end, and a missing file is created.
AppendLine(file, line) ==
    IF file.exists THEN TextFile(Append(file.lines, line)) ELSE TextFile(<<line>>)

AppendHistoryRethrows ==
    /\ pc = "append"
    /\ LET file == monitor[1].historyFile
           csvRow == CsvRow(FormatToIST(clock), currentData[1].worklists)
       IN  \E ok \in BOOLEAN :
             IF ok
             THEN /\ fs' = [fs EXCEPT ![file] = AppendLine(fs[file], csvRow)]
                  /\ appended' = [appended EXCEPT ![idx] = Append(@, csvRow)]
                  /\ log' = log
                  /\ thrown' = thrown
                  /\ pc' = "alert"
             ELSE /\ fs' = fs
                  /\ appended' = appended
                  /\ log' = log \cup {<<"Could not save to history">>}
                  /\ thrown' = Some(<<"fs.appendFile failed">>)
                  /\ pc' = "catch"
    /\ clock' = clock + 1
    /\ UNCHANGED <<env, mainVars, browserVars, monitor, loginVars, extractVars, stages>>

\* The rest of saveToHistory: the row of the current instant is appended; a
\* failed append is logged and swallowed.
AppendHistory ==
    /\ pc = "append"
    /\ LET file == monitor[1].historyFile
           csvRow == CsvRow(FormatToIST(clock), currentData[1].worklists)
       IN  \E ok \in BOOLEAN :
             IF ok
             THEN /\ fs' = [fs EXCEPT ![file] = AppendLine(fs[file], csvRow)]
                  /\ appended' = [appended EXCEPT ![idx] = Append(@, csvRow)]
                  /\ log' = log
             ELSE /\ fs' = fs
                  /\ appended' = appended
                  /\ log' = log \cup {<<"Could not save to history">>}
    /\ clock' = clock + 1
    /\ pc' = "alert"
    /\ UNCHANGED <<env, mainVars, browserVars, monitor, thrown, loginVars,
                   extractVars, stages>>

\* runCheck: the alert decision, and createAlertFile when it is positive.
\* fs.writeJson replaces the file; a failed write is logged and swallowed.
AlertStep ==
    /\ pc = "alert"
    /\ LET worklists == currentData[1].worklists
           currentCount == currentData[1].total
           file == monitor[1].alertFile
       IN  IF ShouldSendEmail(worklists)
           THEN /\ stages' = Append(stages, "alert")
                /\ clock' = clock + 1
                /\ \E ok \in BOOLEAN :
                     IF ok
                     THEN /\ fs' = [fs EXCEPT ![file] =
                                      JsonFile(AlertData(monitor[1].doctorName, worklists,
                                                         currentCount, clock))]
                          /\ log' = log
                     ELSE /\ fs' = fs
                          /\ log' = log \cup {<<"Could not create alert file">>}
           ELSE UNCHANGED <<stages, clock, fs, log>>
    /\ pc' = "finally"
    /\ UNCHANGED <<env, appended, mainVars, browserVars, monitor, thrown, loginVars,
                   extractVars>>

\* runCheck's catch block: log and rethrow.
Catch ==
    /\ pc = "catch"
    /\ log' = log \cup {<<"Check failed with error">>}
    /\ pc' = "finally"
    /\ UNCHANGED <<env, appended, fs, clock, mainVars, browserVars, monitor, thrown,
                   loginVars,
                   extractVars, stages>>

\* runCheck's finally block: if (browser) await browser.close().  A close
\* that throws replaces the exception in flight and leaves the instance as it
\* was.
Finally ==
    /\ pc = "finally"
    /\ IF browser = Null
       THEN UNCHANGED <<browsers, closeCalls, thrown>>
       ELSE /\ closeCalls' = [closeCalls EXCEPT ![browser[1]] = @ + 1]
            /\ \E ok \in BOOLEAN :
                 IF ok
                 THEN /\ browsers' = [browsers EXCEPT ![browser[1]] = "closed"]
                      /\ thrown' = thrown
                 ELSE /\ browsers' = browsers
                      /\ thrown' = Some(ErrClose)
    /\ pc' = "checked"
    /\ UNCHANGED <<env, appended, fs, clock, mainVars, browser, monitor, loginVars,
                   extractVars, stages, log>>

(***************************************************************************)
(* main, after the check of one doctor.                                    *)
(***************************************************************************)
\* The entry main pushes to results when the try block ends with `error`
\* (Null: it ended normally).
ResultEntry(doctorName, error) ==
    IF error = Null
    THEN [doctor |-> doctorName, status |-> "success", error |-> Null]
    ELSE [doctor |-> doctorName, status |-> "failed", error |-> error]

FailuresAfterLast(before, error) == error # Null

\* The value of hasFailures after a try block that ended with `error`.
FailuresAfter(before, error) == before \/ error # Null

RecordResultOfSuccessOnly ==
    /\ pc = "checked"
    /\ thrown = Null
    /\ results' = Append(results, ResultEntry(DoctorNames[idx], thrown))
    /\ hasFailures' = FailuresAfter(hasFailures, thrown)
    /\ thrown' = Null
    /\ pc' = "pause"
    /\ UNCHANGED <<env, appended, fs, clock, idx, exitCode, browserVars, monitor,
                   loginVars, extractVars, stages, log>>

\* The end of the try block of one loop iteration, or its catch block.
RecordResult ==
    /\ pc = "checked"
    /\ results' = Append(results, ResultEntry(DoctorNames[idx], thrown))
    /\ hasFailures' = FailuresAfter(hasFailures, thrown)
    /\ thrown' = Null
    /\ pc' = "pause"
    /\ UNCHANGED <<env, appended, fs, clock, idx, exitCode, browserVars, monitor, loginVars,
                   extractVars, stages, log>>

PauseStopsAfterFailure ==
    /\ pc = "pause"
    /\ idx' = IF hasFailures THEN NumDoctors + 1 ELSE idx + 1
    /\ pc' = "loop"
    /\ monitor' = Null
    /\ browser' = Null
    /\ loginSuccess' = Null
    /\ currentData' = Null
    /\ stages' = <<>>
    /\ log' = {}
    /\ UNCHANGED <<env, appended, fs, clock, hasFailures, results, exitCode, browsers,
                   closeCalls,
                   thrown, loginPos, loginTrace, buttonFound, wl, calls, labels,
                   clickedLabel, scanned, panel, callResult, counts>>

\* The 3 s pause, and on to the next doctor.  The monitor of the iteration
\* that ends, and all that its check held, are gone.
Pause ==
    /\ pc = "pause"
    /\ idx' = idx + 1
    /\ pc' = "loop"
    /\ monitor' = Null
    /\ browser' = Null
    /\ loginSuccess' = Null
    /\ currentData' = Null
    /\ stages' = <<>>
    /\ log' = {}
    /\ UNCHANGED <<env, appended, fs, clock, hasFailures, results, exitCode, browsers,
                   closeCalls,
                   thrown, loginPos, loginTrace, buttonFound, wl, calls, labels,
                   clickedLabel, scanned, panel, callResult, counts>>

\* The exit status main ends the process with.
ExitStatus(failures) == IF failures THEN 1 ELSE 0

\* After the loop: the summary, and process.exit(1) if (hasFailures).
Summary ==
    /\ pc = "loop"
    /\ idx > NumDoctors
    /\ exitCode' = ExitStatus(hasFailures)
    /\ pc' = "exited"
    /\ UNCHANGED <<env, appended, fs, clock, idx, hasFailures, results, browserVars, monitor,
                   thrown, loginVars, extractVars, stages, log>>

Next ==
    \/ Construct
    \/ SetupBrowser
    \/ LoginStep
    \/ AfterLogin
    \/ GetCaseCountWait
    \/ OpenSelector
    \/ FindLabel
    \/ ScanRows
    \/ WorklistReturn
    \/ Aggregate
    \/ AfterCount
    \/ EnsureCSVHeader
    \/ AppendHistory
    \/ AlertStep
    \/ Catch
    \/ Finally
    \/ RecordResult
    \/ Pause
    \/ Summary

Spec == Init /\ [][Next]_vars

\* The run when every call returns or times out: the single thread of
\* control always takes its next step.
FairSpec == Spec /\ WF_vars(Next)

(***************************************************************************)
(* The history file of one doctor over several runs of the process: every  *)
(* run that gets an aggregated result for the doctor calls saveToHistory   *)
(* once.  Of a run, only that call is kept; the files and the clock are    *)
(* what the runs have in common.                                           *)
(***************************************************************************)
\* The raw counts the two worklist calls of a run may have returned.
RawCounts == {Null, Some(0), Some(1)}

HistoryInit ==
    /\ env = [d \in Doctors |-> [username |-> TRUE, password |-> TRUE]]
    /\ fs \in InitialFileSystems
    /\ clock = 1
    /\ pc = "start"
    /\ idx \in Doctors
    /\ hasFailures = FALSE
    /\ results = <<>>
    /\ exitCode = -1
    /\ browsers = [d \in Doctors |-> "none"]
    /\ closeCalls = [d \in Doctors |-> 0]
    /\ monitor = Some(NewCaseMonitor(idx))
    /\ browser = Null
    /\ thrown = Null
    /\ loginPos = 1
    /\ loginTrace = <<>>
    /\ buttonFound = FALSE
    /\ loginSuccess = Some(TRUE)
    /\ wl = 1
    /\ calls = <<>>
    /\ labels = NoLabels
    /\ clickedLabel = 0
    /\ scanned = FALSE
    /\ panel = Null
    /\ callResult = Null
    /\ counts = <<>>
    /\ currentData = Null
    /\ stages = <<>>
    /\ appended = [d \in Doctors |-> <<>>]
    /\ log = {}

\* runCheck of one more run has its aggregated result and comes to
\* `await this.saveToHistory(worklists, currentCount)`.
SaveToHistoryCall ==
    /\ pc \in {"start", "alert"}
    /\ clock <= MaxSaves
    /\ \E count1, count2 \in RawCounts :
         /\ ~AllFailedTest(count1, count2)
         /\ currentData' = CaseCountResult(count1, count2)
    /\ stages' = <<"setup", "login", "extract", "aggregate">>
    /\ log' = {}
    /\ pc' = "header"
    /\ UNCHANGED <<env, appended, fs, clock, mainVars, browserVars, monitor, thrown,
                   loginVars, wl, calls, labels, clickedLabel, scanned, panel, callResult,
                   counts>>

HistoryNext ==
    \/ SaveToHistoryCall
    \/ EnsureCSVHeader
    \/ AppendHistory

SpecHistory == HistoryInit /\ [][HistoryNext]_vars

(***************************************************************************)
(* The end of runCheck, from the aggregated result on, for any counts the  *)
(* two worklist calls may have returned: saveToHistory, the alert decision *)
(* and createAlertFile.                                                    *)
(***************************************************************************)
\* What a worklist call may return: null, or what parseInt(...) || 0 gave.
ReturnedCounts == {Null} \cup {Some(n) : n \in -1..MaxCount}

\* What getCaseCount's calls logged: a call that returned null because no
\* label had the worklist's name warned so.
WarningsOf(count1, count2) ==
    {<<"Could not find", Worklists[i]>> :
        i \in {j \in 1..2 : <<count1, count2>>[j] = Null}}

\* runCheck has its aggregated result and comes to saveToHistory.
AlertInit ==
    /\ env = [d \in Doctors |-> [username |-> TRUE, password |-> TRUE]]
    /\ fs \in InitialFileSystems
    /\ clock = 1
    /\ pc = "header"
    /\ idx \in Doctors
    /\ hasFailures = FALSE
    /\ results = <<>>
    /\ exitCode = -1
    /\ browsers = [d \in Doctors |-> IF d = idx THEN "open" ELSE "none"]
    /\ closeCalls = [d \in Doctors |-> 0]
    /\ monitor = Some(NewCaseMonitor(idx))
    /\ browser = Some(idx)
    /\ thrown = Null
    /\ loginPos = 1
    /\ loginTrace = <<>>
    /\ buttonFound = FALSE
    /\ loginSuccess = Some(TRUE)
    /\ wl = 1
    /\ calls = <<>>
    /\ labels = NoLabels
    /\ clickedLabel = 0
    /\ scanned = FALSE
    /\ panel = Null
    /\ callResult = Null
    /\ counts = <<>>
    /\ \E count1, count2 \in ReturnedCounts :
         /\ ~AllFailedTest(count1, count2)
         /\ currentData = CaseCountResult(count1, count2)
         /\ log = WarningsOf(count1, count2)
    /\ stages = <<"setup", "login", "extract", "aggregate">>
    /\ appended = [d \in Doctors |-> <<>>]

AlertNext ==
    \/ EnsureCSVHeader
    \/ AppendHistory
    \/ AlertStep

SpecAlert == AlertInit /\ [][AlertNext]_vars

(***************************************************************************)
(* The row scan of openWorklistAndCount, for any rows the panel may show   *)
(* when the evaluate call runs: the label was clicked, the 15 s are over.  *)
(***************************************************************************)
\* textContent of a count element, in the panels of SpecScan.
PanelCountTexts == CountTexts \cup { <<"2">>, <<>> }

PanelRowKinds(name) ==
    [divs : { << <<"x">>, <<"x", " ", name>> >> },
     count : {Null} \cup {Some(t) : t \in PanelCountTexts}]
      \cup {[divs |-> << <<"x">> >>, count |-> Some(<<"1">>)]}

Panels(name) == SeqsUpTo(PanelRowKinds(name), MaxRows)

ScanInit ==
    /\ env = [d \in Doctors |-> [username |-> TRUE, password |-> TRUE]]
    /\ fs \in InitialFileSystems
    /\ clock = 1
    /\ pc = "wlScan"
    /\ idx = 1
    /\ hasFailures = FALSE
    /\ results = <<>>
    /\ exitCode = -1
    /\ browsers = [d \in Doctors |-> IF d = idx THEN "open" ELSE "none"]
    /\ closeCalls = [d \in Doctors |-> 0]
    /\ monitor = Some(NewCaseMonitor(idx))
    /\ browser = Some(idx)
    /\ thrown = Null
    /\ loginPos = 1
    /\ loginTrace = <<>>
    /\ buttonFound = FALSE
    /\ loginSuccess = Some(TRUE)
    /\ wl \in 1..Len(Worklists)
    /\ calls = SubSeq(Worklists, 1, wl)
    /\ labels = << <<Worklists[wl]>> >>
    /\ clickedLabel = 1
    /\ scanned = FALSE
    /\ panel \in {Some(rows) : rows \in Panels(Worklists[wl])}
    /\ callResult = Null
    /\ counts = SubSeq(<<Null, Null>>, 1, wl - 1)
    /\ currentData = Null
    /\ stages = <<"setup", "login", "extract">>
    /\ appended = [d \in Doctors |-> <<>>]
    /\ log = {}

\* The evaluate call of the row scan on the rows of the panel, and the
\* return of the count.
ScanPanel ==
    /\ pc = "wlScan"
    /\ panel # Null
    /\ scanned' = TRUE
    /\ callResult' = ScanRowsFor(panel[1], Worklists[wl])
    /\ pc' = "wlReturn"
    /\ UNCHANGED <<env, appended, fs, clock, mainVars, browserVars, monitor, thrown,
                   loginVars, wl, calls, labels, clickedLabel, panel, counts,
                   currentData, stages, log>>

ScanNext == ScanPanel

SpecScan == ScanInit /\ [][ScanNext]_vars

(***************************************************************************)
(* Properties.                                                             *)
(***************************************************************************)
IsPrefix(s, t) == Len(s) <= Len(t) /\ SubSeq(t, 1, Len(s)) = s

Range(s) == {s[i] : i \in 1..Len(s)}

\* runCheck of the current doctor has returned or thrown to main.
BackInMain == pc \in {"checked", "pause"} /\ idx \in Doctors

\* What the check logs when a write of a file failed.
PersistenceErrors ==
    { <<"Could not create CSV header">>, <<"Could not save to history">>,
      <<"Could not create alert file">> }

\* The paths of the files of the configured doctors.
HistoryPath == [d \in Doctors |-> HistoryFileOf(DoctorNames[d])]
AlertPath == [d \in Doctors |-> AlertFileOf(DoctorNames[d])]

HistoryOf(d) == fs[HistoryPath[d]]
AlertOf(d) == fs[AlertPath[d]]

\* C1: once runCheck has returned or thrown to main, a browser instance that
\* was launched in it has been closed, by exactly one call of close.
C1_LaunchedBrowserClosedOnce ==
    (BackInMain /\ browsers[idx] # "none") => closeCalls[idx] = 1

\* C2: at most one browser instance is open at any time of a run.
C2_AtMostOneBrowserOpen ==
    Cardinality({d \in Doctors : browsers[d] = "open"}) <= 1

\* C3: main records exactly one outcome per doctor, in the configured
\* order, whatever happened to the doctors before: a failure is one
\* "failed" entry with the error's text, the loop goes on to the next doctor,
\* the run exits only with an outcome for every doctor, and the check of a
\* doctor that follows a failed one writes its history row and its alert file
\* as usual.
C3_EveryDoctorOnce ==
    /\ Len(results) = (IF pc = "pause" THEN idx ELSE idx - 1)
    /\ \A i \in 1..Len(results) :
         /\ results[i].doctor = DoctorNames[i]
         /\ results[i].status \in {"success", "failed"}
         /\ (results[i].status = "failed") = (results[i].error # Null)
    /\ pc = "exited" => Len(results) = NumDoctors
    /\ \A d \in Doctors : closeCalls[d] <= 1
    /\ (/\ pc = "pause"
        /\ idx > 1
        /\ results[idx - 1].status = "failed"
        /\ results[idx].status = "success"
        /\ log \cap PersistenceErrors = {})
       => /\ currentData # Null
          /\ HistoryOf(idx).exists
          /\ \E t \in 1..(clock - 1) :
               HistoryOf(idx).lines[Len(HistoryOf(idx).lines)]
                  = CsvRow(FormatToIST(t), currentData[1].worklists)
          /\ Get(currentData[1].worklists, MyList) > 0
               => /\ AlertOf(idx).exists
                  /\ AlertOf(idx).json.timestamp = clock - 1
                  /\ AlertOf(idx).json.worklists = currentData[1].worklists

C3_Witness ==
    /\ pc = "exited"
    /\ results[1].status = "failed"
    /\ results[2].status = "success"
    /\ AlertOf(2).exists
    /\ AlertOf(2).json.timestamp > 0

\* C4: the process exits with 0 exactly when no doctor's check ended with
\* an error, and with 1 otherwise; a check whose extraction gave null for
\* some but not all worklists gets an aggregated result, and a check that has
\* one is a success unless closing the browser threw.
C4_ExitStatus ==
    /\ (exitCode # -1) = (pc = "exited")
    /\ pc = "exited" =>
         /\ exitCode \in {0, 1}
         /\ (exitCode = 0) = (\A i \in 1..Len(results) : results[i].status = "success")
    /\ (pc = "countReturned" /\ Len(counts) = 2 /\ \E i \in 1..2 : counts[i] # Null)
         => currentData # Null
    /\ (pc = "pause" /\ currentData # Null)
         => \/ results[idx].status = "success"
            \/ results[idx].error = Some(ErrClose)

C4_Witness ==
    /\ pc = "exited"
    /\ exitCode = 0
    /\ Len(results) = NumDoctors
    /\ \A d \in Doctors : browsers[d] = "closed"

\* C5: loginToPortal returns true only if every step succeeded, the
\* location and click of the "Log In" button included.
C5_TrueOnlyIfEveryStepSucceeded ==
    (pc = "loginReturned" /\ loginSuccess = Some(TRUE))
       => (loginTrace = LoginSteps /\ buttonFound)

StageOrder == <<"setup", "login", "extract", "aggregate", "history", "alert">>

\* C6: the stages of one check start in the order setup, login,
\* extraction, aggregation, history, alert, none without the one before it:
\* no login without a browser from setup, no extraction unless login returned
\* true, no history without an aggregated result; and a check that ended at
\* setup or at login is a "failed" outcome of that doctor in main's results.
C6_StagesInOrder ==
    /\ IsPrefix(stages, StageOrder)
    /\ browser = Null => "login" \notin Range(stages)
    /\ loginSuccess # Some(TRUE) => "extract" \notin Range(stages)
    /\ currentData = Null => "history" \notin Range(stages)
    /\ (/\ pc = "pause"
        /\ monitor # Null
        /\ (browser = Null \/ loginSuccess = Some(FALSE)))
       => /\ results[idx].status = "failed"
          /\ results[idx].error # Null
          /\ exitCode = -1

C6_Witness ==
    /\ pc = "pause"
    /\ loginSuccess = Some(FALSE)
    /\ stages = <<"setup", "login">>
    /\ results[idx].status = "failed"
    /\ results[idx].error = Some(ErrLogin)

\* C7 as stated: every call of getCaseCount invokes openWorklistAndCount
\* once for 'A##MY LIST' and then once for 'UNVIEWED'.
C7_BothWorklistsAlwaysAttempted ==
    pc = "countReturned" => calls = <<MyList, Unviewed>>

\* C7 as amended: the invocations are always a prefix of 'A##MY LIST',
\* 'UNVIEWED'; when getCaseCount returns, both were made, one count each,
\* unless the wait for the dropdown failed, in which case none was made
\* and the result is null.
C7_BothAttemptedOnceDropdownIsThere ==
    /\ IsPrefix(calls, <<MyList, Unviewed>>)
    /\ pc = "countReturned" =>
         IF <<"Failed to get case count">> \in log
         THEN calls = <<>> /\ currentData = Null
         ELSE calls = <<MyList, Unviewed>> /\ Len(counts) = 2
    /\ pc = "aggregate" => calls = <<MyList, Unviewed>> /\ Len(counts) = 2

C7_Witness ==
    /\ pc = "countReturned"
    /\ calls = <<MyList, Unviewed>>
    /\ counts[1] = Null
    /\ counts[2] # Null

NoLabelMatches(name) == \A i \in 1..Len(labels) : Trim(labels[i]) # <<name>>

InWorklistCall == pc \in {"wlOpen", "wlFind", "wlScan", "wlReturn"}

\* C8: openWorklistAndCount never throws, a failure of one of its steps
\* makes it return null, and when no label's trimmed text is the worklist
\* name it returns null with no label clicked and no row scanned; the label
\* it clicks is one whose trimmed text is the name.
C8_NeverThrowsNullWhenNoLabel ==
    /\ InWorklistCall => thrown = Null
    /\ (pc = "wlReturn" /\ <<"Failed to process", Worklists[wl]>> \in log)
         => callResult = Null
    /\ (pc \in {"wlScan", "wlReturn"} /\ NoLabelMatches(Worklists[wl]))
         => /\ pc = "wlReturn"
            /\ callResult = Null
            /\ clickedLabel = 0
            /\ ~scanned
    /\ (InWorklistCall /\ clickedLabel # 0)
         => Trim(labels[clickedLabel]) = <<Worklists[wl]>>
    /\ scanned => clickedLabel # 0

C8_Witness ==
    /\ pc = "wlReturn"
    /\ labels # <<>>
    /\ NoLabelMatches(Worklists[wl])
    /\ <<"Could not find", Worklists[wl]>> \in log
    /\ callResult = Null

\* C9: the aggregation gives "all failed" (null) exactly when both raw
\* counts are null, and an "all failed" check is a "failed" outcome.
C9_AllFailedIffAllNull ==
    /\ (pc = "countReturned" /\ Len(counts) = 2)
         => (currentData = Null) = (\A i \in 1..2 : counts[i] = Null)
    /\ (pc = "pause" /\ <<"Could not extract case counts from any worklist">> \in log)
         => results[idx].status = "failed"

C9_Witness ==
    /\ pc = "countReturned"
    /\ counts = <<Some(0), Some(0)>>
    /\ currentData # Null

\* C10: an aggregated result maps 'A##MY LIST' and 'UNVIEWED', in this
\* order, to their raw counts with null replaced by 0, and its total is the
\* normalized count of 'A##MY LIST' alone.
C10_NormalizedCountsAndTotal ==
    (pc = "countReturned" /\ currentData # Null)
       => LET worklists == currentData[1].worklists
              n1 == IF counts[1] = Null THEN 0 ELSE counts[1][1]
              n2 == IF counts[2] = Null THEN 0 ELSE counts[2][1]
          IN  /\ worklists = << <<MyList, n1>>, <<Unviewed, n2>> >>
              /\ currentData[1].total = n1

C10_Witness ==
    /\ pc = "countReturned"
    /\ counts = <<Null, Some(1)>>
    /\ currentData # Null
    /\ currentData[1].total = 0

\* The check of the current doctor has an aggregated result and is past the
\* alert decision.
PastAlertDecision == pc \in {"finally", "checked", "pause"} /\ currentData # Null

\* Doctor d's alert file was written in this run of the process (the files an
\* earlier run left carry the instant 0).
AlertWrittenInThisRun(d) == AlertOf(d).exists /\ AlertOf(d).json.timestamp >= 1

C11_WitnessNoAlert ==
    /\ pc = "finally"
    /\ currentData # Null
    /\ currentData[1].worklists = << <<MyList, 0>>, <<Unviewed, 1>> >>
    /\ ~AlertOf(idx).exists

\* C12: when the check of a doctor has run to its end, no write of a file
\* having failed, the doctor's alert file is the one this check wrote: it
\* holds the counts and the total of this check and the instant of this run,
\* never what an earlier run left.
C12_AlertFileIsOfTheLatestRun ==
    (pc = "pause" /\ currentData # Null /\ log \cap PersistenceErrors = {})
       => /\ AlertWrittenInThisRun(idx)
          /\ AlertOf(idx).json.worklists = currentData[1].worklists
          /\ AlertOf(idx).json.casesFound = currentData[1].total

\* The files an earlier run left, by path.
PriorFileSystem ==
    [p \in Paths |->
        PriorFiles(CHOOSE d \in Doctors : p \in {HistoryPath[d], AlertPath[d]})[p]]

\* Doctor d's files are as the process found them: this run wrote neither.
FilesUntouched(d) ==
    \A p \in {HistoryPath[d], AlertPath[d]} :
       fs[p] = Absent \/ fs[p] = PriorFileSystem[p]

\* C13: when the check of a doctor is recorded as "failed", this run has
\* changed neither the doctor's history file nor the doctor's alert file.
C13_FailedCheckWroteNothing ==
    (pc = "pause" /\ results[idx].status = "failed") => FilesUntouched(idx)

\* C14: a failed write of the history file or of the alert file is logged
\* and goes no further: no step of saveToHistory or createAlertFile leaves an
\* exception in flight, the check goes on to the alert decision after a failed
\* history write (and writes the alert file as C11 says), and a check in
\* which a write failed is recorded as "success" unless closing the browser
\* threw.
C14_WriteFailuresSwallowed ==
    /\ pc \in {"header", "append", "alert"} => thrown = Null
    /\ (pc = "finally" /\ currentData # Null) => thrown = Null
    /\ (/\ PastAlertDecision
        /\ <<"Could not save to history">> \in log
        /\ Get(currentData[1].worklists, MyList) > 0)
       => /\ "alert" \in Range(stages)
          /\ \/ <<"Could not create alert file">> \in log
             \/ AlertOf(idx).json.timestamp = clock - 1
    /\ (pc = "pause" /\ log \cap PersistenceErrors # {})
       => \/ results[idx].status = "success"
          \/ results[idx].error = Some(ErrClose)

C14_Witness ==
    /\ pc = "pause"
    /\ <<"Could not save to history">> \in log
    /\ <<"Could not create CSV header">> \in log
    /\ ~HistoryOf(idx).exists
    /\ AlertWrittenInThisRun(idx)
    /\ results[idx].status = "success"

\* C15: an error of browser.close() does not leave runCheck: what runCheck
\* hands to main is never the close error, and a check that has an aggregated
\* result, so that its pipeline ran to the end, is recorded as "success".
C15_CloseFailureNotPropagated ==
    /\ pc = "checked" => thrown # Some(ErrClose)
    /\ (pc = "pause" /\ currentData # Null) => results[idx].status = "success"

\* line.split(',').length
Columns(line) == 1 + Cardinality({i \in 1..Len(line) : line[i] = ","})

\* The header line of a history file: the two worklist names never change.
TheHeaderLine == HeaderLine(WorklistCountsOf(Null, Null))

\* The data rows an earlier run left in doctor d's history file, if it left
\* the file.
PriorRowsOf == [d \in Doctors |-> Tail(PriorFileSystem[HistoryPath[d]].lines)]

PriorRows(d) == PriorRowsOf[d]

\* C16: after N successful appends to a doctor's history file, the file is
\* one header line followed by the N appended rows in the order of the
\* appends (after the rows an earlier run left, which stay as they were), and
\* every row has as many columns as the header.
C16_HeaderPlusAppendedRows ==
    \A d \in Doctors :
       appended[d] # <<>> =>
          /\ HistoryOf(d).exists
          /\ Head(HistoryOf(d).lines) = TheHeaderLine
          /\ Tail(HistoryOf(d).lines) \in {appended[d], PriorRows(d) \o appended[d]}
          /\ \A i \in 1..Len(HistoryOf(d).lines) :
               Columns(HistoryOf(d).lines[i]) = Columns(TheHeaderLine)

\* The indices of the header lines of a text file.
HeaderLinesOf(file) == {i \in 1..Len(file.lines) : file.lines[i] = TheHeaderLine}

\* C17: when ensureCSVHeader has returned without a failed write, in
\* whatever run and after however many calls before it, the doctor's history
\* file exists and has exactly one header line.
C17_ExactlyOneHeaderLine ==
    (pc = "append" /\ <<"Could not create CSV header">> \notin log)
       => /\ HistoryOf(idx).exists
          /\ Cardinality(HeaderLinesOf(HistoryOf(idx))) = 1

\* A line is a data row: a formatted instant, then one count per worklist.
IsDataRow(line) ==
    \E t \in 0..clock : \E c1, c2 \in -1..2 :
       line = CsvRow(FormatToIST(t), << <<MyList, c1>>, <<Unviewed, c2>> >>)

\* C18: a history file that exists and is not empty has the header as its
\* first line and only data rows after it.
C18_HeaderFirstThenRows ==
    \A d \in Doctors :
       (HistoryOf(d).exists /\ HistoryOf(d).lines # <<>>)
          => /\ Head(HistoryOf(d).lines) = TheHeaderLine
             /\ \A i \in 2..Len(HistoryOf(d).lines) : IsDataRow(HistoryOf(d).lines[i])

\* The instant saveToHistory of the current check read the clock at: the
\* alert step, when it writes, reads it once more.
SaveInstant == IF "alert" \in Range(stages) THEN clock - 2 ELSE clock - 1

\* C19: a check that has an aggregated result calls saveToHistory once,
\* whether or not the alert fires, and that call appends exactly one row,
\* the formatted instant followed by the normalized counts of 'A##MY LIST'
\* and 'UNVIEWED' in this order, as the last line of the doctor's history
\* file; no row is appended only when the append failed and was logged.
C19_OneRowPerAggregatedResult ==
    /\ \A d \in Doctors : Len(appended[d]) <= 1
    /\ PastAlertDecision =>
         LET worklists == currentData[1].worklists
             row == FormatToIST(SaveInstant)
                      \o <<",", ToString(Get(worklists, MyList)),
                           ",", ToString(Get(worklists, Unviewed))>>
         IN  /\ "history" \in Range(stages)
             /\ IF <<"Could not save to history">> \in log
                THEN appended[idx] = <<>>
                ELSE /\ appended[idx] = <<row>>
                     /\ HistoryOf(idx).exists
                     /\ HistoryOf(idx).lines[Len(HistoryOf(idx).lines)] = row

C19_Witness ==
    /\ pc = "finally"
    /\ currentData # Null
    /\ <<"Could not find", MyList>> \in log
    /\ currentData[1].worklists = << <<MyList, 0>>, <<Unviewed, 1>> >>
    /\ currentData[1].total = 0
    /\ "alert" \notin Range(stages)
    /\ Len(appended[idx]) = 1
    /\ HistoryOf(idx).lines = <<TheHeaderLine>> \o appended[idx]

\* Doctor d's display name, username or password is empty or missing.
IncompleteAccount(d) == DoctorNames[d] = <<>> \/ ~env[d].username \/ ~env[d].password

\* C20: for a doctor whose name, username or password is empty or missing
\* no browser is ever launched and no file is written; the constructor's
\* error ends the doctor's loop iteration before any stage of a check, the
\* doctor is recorded as "failed" with that error, and the run still ends
\* with an outcome for every doctor, the other doctors having been checked.
C20_IncompleteAccountRejected ==
    /\ \A d \in Doctors :
         IncompleteAccount(d)
            => /\ browsers[d] = "none"
               /\ closeCalls[d] = 0
               /\ FilesUntouched(d)
               /\ d <= Len(results)
                    => /\ results[d].status = "failed"
                       /\ results[d].error = Some(ErrCredentials(DoctorNames[d]))
    /\ (idx \in Doctors /\ IncompleteAccount(idx))
         => /\ pc \in {"loop", "checked", "pause"}
            /\ monitor = Null
            /\ browser = Null
            /\ stages = <<>>
    /\ pc = "exited"
         => /\ Len(results) = NumDoctors
            /\ \A d \in Doctors :
                 ~IncompleteAccount(d) => browsers[d] # "none" \/ results[d].status = "failed"

C20_Witness ==
    /\ pc = "exited"
    /\ IncompleteAccount(1)
    /\ results[1].status = "failed"
    /\ results[1].error = Some(ErrCredentials(DoctorNames[1]))
    /\ browsers[1] = "none"
    /\ ~HistoryOf(1).exists
    /\ results[2].status = "success"
    /\ browsers[2] = "closed"
    /\ HistoryOf(2).exists

\* The files of doctor d.
FilesOf(d) == {HistoryPath[d], AlertPath[d]}

\* No two of the files of the configured doctors have the same path.
PathsDistinct ==
    /\ \A d \in Doctors : Cardinality(FilesOf(d)) = 2
    /\ \A d, e \in Doctors : d # e => FilesOf(d) \cap FilesOf(e) = {}

\* C21: the history file and the alert file of a doctor are two files, the
\* files of two different configured doctors have no path in common, and the
\* check of one doctor leaves the files of the others alone: the files of a
\* doctor whose check has not come to saveToHistory are as the process found
\* them, an alert file carries the name of the doctor it belongs to, and a
\* history file holds, after what was there before, the rows appended for its
\* own doctor and nothing else.
C21_OnlyOwnFilesChange ==
    /\ PathsDistinct
    /\ \A d \in Doctors :
         /\ (d > idx \/ (d = idx /\ "history" \notin Range(stages)))
              => FilesUntouched(d)
         /\ AlertOf(d).exists => AlertOf(d).json.doctorName = DoctorNames[d]
         /\ HistoryOf(d).exists
              => HistoryOf(d).lines \in { appended[d],
                                          <<TheHeaderLine>> \o appended[d],
                                          <<TheHeaderLine>> \o PriorRows(d) \o appended[d] }

C21_Witness ==
    /\ pc = "pause"
    /\ idx = 2
    /\ ~FilesUntouched(2)
    /\ AlertWrittenInThisRun(2)
    /\ HistoryOf(1).exists
    /\ FilesUntouched(1)

\* An earlier run left its row in doctor d's history file (a history file is
\* only ever appended to, so the row stays where it was).
HadPriorRun(d) ==
    /\ HistoryOf(d).exists
    /\ Len(HistoryOf(d).lines) >= 2
    /\ HistoryOf(d).lines[2] = PriorRows(d)[1]

\* The total the previous run of doctor d recorded, 0 when there was none.
PreviousTotal(d) ==
    IF HadPriorRun(d) THEN TotalCountOf(Some(Get(PriorWorklists, MyList)), Null) ELSE 0

\* C22: a check generates an alert only when its total is larger than the
\* total the doctor's previous run recorded.
C22_AlertOnlyOnNewCases ==
    (PastAlertDecision /\ "alert" \in Range(stages))
       => currentData[1].total > PreviousTotal(idx)

\* The aggregated result that differs from `data` only in the count a of
\* 'A##MY LIST'.
WithMyListCount(data, a) ==
    CaseCountResult(Some(a), Some(Get(data.worklists, Unviewed)))[1]

\* The alert of the current check fired: createAlertFile was called and,
\* unless its write failed and was logged, the alert file is of this check.
AlertFired ==
    /\ "alert" \in Range(stages)
    /\ <<"Could not create alert file">> \notin log => AlertWrittenInThisRun(idx)

\* C23: when a result with a smaller count of 'A##MY LIST', all else equal,
\* makes the alert fire, the check of the larger count has fired it too; and
\* when the smaller count has hasCases set, the alert file of the larger one
\* has it set.
C23_AlertDecisionMonotonic ==
    PastAlertDecision =>
       \A a \in -1..(Get(currentData[1].worklists, MyList) - 1) :
          LET smaller == WithMyListCount(currentData[1], a)
          IN  /\ ShouldSendEmail(smaller.worklists) => AlertFired
              /\ (ShouldSendEmail(smaller.worklists) /\ HasCases(smaller.total)
                    /\ AlertWrittenInThisRun(idx))
                 => AlertOf(idx).json.hasCases

C23_Witness ==
    /\ pc = "finally"
    /\ currentData # Null
    /\ Get(currentData[1].worklists, MyList) = 3
    /\ ShouldSendEmail(WithMyListCount(currentData[1], 2).worklists)
    /\ AlertWrittenInThisRun(idx)
    /\ AlertOf(idx).json.casesFound = 3
    /\ AlertOf(idx).json.hasCases

\* C24: every alert file a run writes has hasCases = true.
C24_WrittenAlertHasCases ==
    \A d \in Doctors : AlertWrittenInThisRun(d) => AlertOf(d).json.hasCases

\* loginToPortal is running or has just returned.
InLogin == pc \in {"login", "loginReturned"}

\* C25: the steps of login complete in program order, each one started
\* only when the one before it succeeded, the click of the "Log In" button
\* included; a step that fails ends login with false, the steps after it
\* not performed, so that nothing is typed unless the login form was seen.
C25_LoginStepsInOrder ==
    InLogin =>
       /\ IsPrefix(loginTrace, LoginSteps)
       /\ pc = "login" => loginTrace = SubSeq(LoginSteps, 1, loginPos - 1)
       /\ "typeUser" \in Range(loginTrace) => "waitLoginMarker" \in Range(loginTrace)
       /\ (pc = "loginReturned" /\ loginSuccess = Some(FALSE))
            => /\ Len(loginTrace) < Len(LoginSteps)
               /\ <<"Login failed">> \in log
       /\ "clickLoginButton" \in Range(loginTrace)
            /\ (pc = "login" \/ "waitSettle" \in Range(loginTrace))
            => buttonFound

\* What parseInt(text.trim()) || 0 is for the count texts of the panels.
CountOfText(text) ==
    CASE text = <<" ", "1", "x">> -> 1
      [] text = <<"-", "1">> -> -1
      [] text = <<"x">> -> 0
      [] text = <<"2">> -> 2
      [] text = <<"1">> -> 1
      [] text = <<>> -> 0

\* The rows of the panel whose text contains the worklist name.
MatchingRows == {i \in 1..Len(panel[1]) : HasTargetText(panel[1][i], Worklists[wl])}

\* The least element of a non-empty set of row indices.
FirstOf(S) == CHOOSE i \in S : \A j \in S : i <= j

\* The row scan has returned its count for the panel.
ScanReturned == pc = "wlReturn" /\ panel # Null /\ scanned

\* C26 as stated: the first row whose text contains the worklist name
\* decides: its count element, parsed, is the result, and the result is null
\* when there is no such row or when that row has no count element.
C26_FirstMatchingRowDecides ==
    ScanReturned =>
       IF MatchingRows = {} THEN callResult = Null
       ELSE LET row == panel[1][FirstOf(MatchingRows)]
            IN  IF row.count = Null THEN callResult = Null
                ELSE callResult = Some(CountOfText(row.count[1]))

\* C26 as amended: the first row whose text contains the worklist name and
\* that has a count element decides: its count element, parsed, is the
\* result; the result is null when no row is such a row.  A matching row
\* without a count element is passed over.
C26_FirstMatchingRowWithCountDecides ==
    ScanReturned =>
       LET withCount == {i \in MatchingRows : panel[1][i].count # Null}
       IN  IF withCount = {} THEN callResult = Null
           ELSE callResult = Some(CountOfText(panel[1][FirstOf(withCount)].count[1]))

C26_Witness ==
    /\ ScanReturned
    /\ Len(panel[1]) = 2
    /\ MatchingRows = {1, 2}
    /\ panel[1][1].count = Null
    /\ panel[1][2].count = Some(<<"2">>)
    /\ callResult = Some(2)

\* C27: a worklist call returns null or an integer >= 0, every count and
\* the total of an aggregated result are >= 0, and so is casesFound of an
\* alert file written in this run.
C27_CountsNeverNegative ==
    /\ pc = "wlReturn" => (callResult = Null \/ callResult[1] >= 0)
    /\ \A i \in 1..Len(counts) : counts[i] = Null \/ counts[i][1] >= 0
    /\ currentData # Null
         => /\ \A i \in 1..Len(currentData[1].worklists) :
                 currentData[1].worklists[i][2] >= 0
            /\ currentData[1].total >= 0
    /\ \A d \in Doctors : AlertWrittenInThisRun(d) => AlertOf(d).json.casesFound >= 0

\* C28: when every call returns or times out, the run comes to its end:
\* the summary is reached with an outcome for every doctor, and the process
\* exits.
C28_RunTerminates ==
    <>(pc = "exited" /\ Len(results) = NumDoctors /\ exitCode \in {0, 1})

C28_Witness ==
    /\ pc = "exited"
    /\ Len(results) = NumDoctors
    /\ \A d \in Doctors : results[d].status = "failed"
    /\ results[1].error = Some(ErrLogin)
    /\ exitCode = 1

=============================================================================
